---- MODULE Spec2Model ----
(***************************************************************************)
(* A model of the MCP host of src/mcp/client.py: main() connects the       *)
(* servers named on the command line, runs the interactive chat loop and   *)
(* finally closes the exit stack.  MCPClient.process_query is the turn     *)
(* loop: one model call, one assistant turn, the requested tool calls in   *)
(* order, one tool-result turn, until a response requests no tool.         *)
(*                                                                         *)
(* The language-model backend, the tool servers and the user are the       *)
(* environment: their answers (the response blocks, the tool results, an   *)
(* exception) are chosen nondeterministically from small sets.             *)
(***************************************************************************)
EXTENDS Integers, Sequences, FiniteSets, TLC

\* ------------------------------------------------------------------ bounds

\* Longest command line (number of server paths in sys.argv[1:]).
MaxServers == 2
\* Most input the host is fed in one run: every query typed at the prompt,
\* every model response and every content block of a response counts one.
MaxInput == 5

\* ------------------------------------------------------------- environment

\* Python's None where a session is expected (dict.get of a missing key).
None == [kind |-> "None", n |-> 0]

\* The server scripts a command line may name; the last one has no .py/.js suffix.
ServerPaths == {"calc.py", "net.js", "notes.txt"}

\* What each server answers to list_tools: tool.name, tool.description,
\* tool.inputSchema.  Both servers export a tool named "ping".
ServerTools(path) ==
    CASE path = "calc.py" ->
           << [name |-> "add", description |-> "calc add", inputSchema |-> "ab"],
              [name |-> "ping", description |-> "calc ping", inputSchema |-> "none"] >>
      [] path = "net.js" ->
           << [name |-> "ping", description |-> "net ping", inputSchema |-> "none"] >>
      [] OTHER -> << >>

\* The tool names a model response may ask for; "nope" is exported by no server.
ToolNames == {"add", "ping", "nope"}

\* The queries a user may type (already stripped, none of them "quit").
Queries == {"q"}

\* The content parts a tool server may answer to call_tool: a part that has a
\* text attribute, and one that has none (an image) and is rendered by str().
TextPart == [type |-> "text", text |-> "5"]
ImagePart == [type |-> "image", repr |-> "ImageContent()"]
ToolAnswers == { << >>, <<TextPart, ImagePart>> }

\* ------------------------------------------------------------------ helpers

\* str.endswith
EndsWith(s, suf) ==
    /\ Len(s) >= Len(suf)
    /\ SubSeq(s, Len(s) - Len(suf) + 1, Len(s)) = suf

is_python(path) == EndsWith(path, ".py")
is_js(path) == EndsWith(path, ".js")

\* ' '.join(parts)
RECURSIVE JoinWithSpaces(_)
JoinWithSpaces(parts) ==
    IF Len(parts) = 0 THEN ""
    ELSE IF Len(parts) = 1 THEN parts[1]
    ELSE parts[1] \o " " \o JoinWithSpaces(Tail(parts))

\* '\n'.join(parts)
RECURSIVE Join(_)
Join(parts) ==
    IF Len(parts) = 0 THEN ""
    ELSE IF Len(parts) = 1 THEN parts[1]
    ELSE parts[1] \o "\n" \o Join(Tail(parts))

\* A Python value that is a str, and one that is a list: the content of a turn
\* is the query string for a typed query and a list of blocks otherwise.
PyStr(s) == [py |-> "str", v |-> s]
PyList(l) == [py |-> "list", v |-> l]

\* The keys of a function as a set; the range of a sequence.
Range(f) == { f[x] : x \in DOMAIN f }

\* d[k] = v on a Python dict modelled as a function.
DictSet(d, k, v) == [ x \in DOMAIN d \cup {k} |-> IF x = k THEN v ELSE d[x] ]

\* A lookup that answers with the entry of some key when the key is present.
DictGetAny(d, k) ==
    IF k \in DOMAIN d THEN d[CHOOSE x \in DOMAIN d : TRUE] ELSE None

\* d.get(k)
DictGet(d, k) == IF k \in DOMAIN d THEN d[k] ELSE None

EmptyDict == [ x \in {} |-> None ]

\* --------------------------------------------------------------------- state

VARIABLES
    argv,                  \* sys.argv[1:]
    pc,                    \* where main() is: "connect", "input", "model",
                           \* "dispatch", "call", "cleanup", "exited"
    arg_idx,               \* index into argv of the next server to connect
    sessions,              \* self.sessions: path -> session
    tool_to_session_map,   \* self.tool_to_session_map: tool name -> session
    tools,                 \* self.tools
    exit_stack,            \* self.exit_stack: the contexts entered, oldest first
    conversation_history,  \* self.conversation_history
    log_parts,             \* process_query's log_parts
    tool_calls_to_execute, \* process_query's tool_calls_to_execute
    tool_results,          \* process_query's tool_results
    next_session,          \* the number of the next ClientSession created
    next_block_id,         \* the number of tool-use ids the backend has issued
    \* What happened, recorded for the properties:
    responses,             \* the responses the backend gave to this query
    call_log,              \* the call_tool calls of this tool-result turn
    released,              \* the contexts whose release was attempted, in order
    outcome,               \* how things went: startup, query, cleanup, counts
    returned               \* what the last process_query call that returned, returned

vars == << argv, pc, arg_idx, sessions, tool_to_session_map, tools, exit_stack,
           conversation_history, log_parts, tool_calls_to_execute, tool_results,
           next_session, next_block_id, responses, call_log, released, outcome,
           returned >>

hostVars == << sessions, tool_to_session_map, tools, exit_stack, next_session >>
queryVars == << conversation_history, log_parts, tool_calls_to_execute,
                tool_results, next_block_id, responses, call_log, returned >>

\* MCPClient.__init__, and main() up to its try block.
Init ==
    /\ argv \in UNION { [1..n -> ServerPaths] : n \in 1..MaxServers }
    /\ pc = "connect"
    /\ arg_idx = 1
    /\ sessions = EmptyDict
    /\ tool_to_session_map = EmptyDict
    /\ tools = << >>
    /\ exit_stack = << >>
    /\ conversation_history = << >>
    /\ log_parts = << >>
    /\ tool_calls_to_execute = << >>
    /\ tool_results = << >>
    /\ next_session = 1
    /\ next_block_id = 1
    /\ responses = << >>
    /\ call_log = << >>
    /\ released = << >>
    /\ outcome = [ startup |-> "running", connected |-> 0, queries |-> 0,
                   input |-> 0, query |-> "none",
                   acquired |-> {}, release_raised |-> FALSE ]
    /\ returned = ""

\* ------------------------------------------------------- connect_to_server

\* The two contexts one connection enters on the exit stack, and the session
\* object itself (the value stored in the two dictionaries).
Transport(n) == [kind |-> "transport", n |-> n]
Session(n) == [kind |-> "session", n |-> n]

\* The descriptor built from one tool of a list_tools response.
Descriptor(tool) ==
    [name |-> tool.name, description |-> tool.description,
     input_schema |-> tool.inputSchema]

\* server_tools = [{...} for tool in response.tools]
server_tools(path) ==
    [ k \in 1..Len(ServerTools(path)) |-> Descriptor(ServerTools(path)[k]) ]

\* A catalog that is replaced by the last server's tools.
ReplaceTools(catalog, descs) == descs

\* self.tools after the registration loop over descs.
RegisterTools(catalog, descs) == catalog \o descs

\* A registration loop that maps the first descriptor only.
RegisterMapFirstOnly(map, descs, session) ==
    IF descs = << >> THEN map
    ELSE DictSet(map, Head(descs).name, session)

\* A map in which the first registration of a name stays.
RECURSIVE RegisterMapFirstWins(_, _, _)
RegisterMapFirstWins(map, descs, session) ==
    IF descs = << >> THEN map
    ELSE RegisterMapFirstWins(
             IF Head(descs).name \in DOMAIN map THEN map
             ELSE DictSet(map, Head(descs).name, session),
             Tail(descs), session)

\* self.tool_to_session_map after the registration loop over descs.
RECURSIVE RegisterMap(_, _, _)
RegisterMap(map, descs, session) ==
    IF descs = << >> THEN map
    ELSE RegisterMap(DictSet(map, Head(descs).name, session), Tail(descs), session)

\* A startup that goes on with the next server after a failed connection.
ConnectRaisesAndGoesOn(entered) ==
    /\ exit_stack' = exit_stack \o entered
    /\ outcome' = [outcome EXCEPT !.startup = "failed",
                                  !.acquired = @ \cup Range(entered)]
    /\ next_session' = next_session + (IF entered = << >> THEN 0 ELSE 1)
    /\ arg_idx' = arg_idx + 1
    /\ pc' = IF arg_idx = Len(argv) THEN "input" ELSE "connect"
    /\ UNCHANGED << argv, tool_to_session_map, tools, released >>
    /\ UNCHANGED queryVars

\* connect_to_server raised after entering the contexts `entered`: the
\* exception leaves main()'s for loop and its finally clause runs cleanup.
ConnectRaises(entered) ==
    /\ exit_stack' = exit_stack \o entered
    /\ outcome' = [outcome EXCEPT !.startup = "failed",
                                  !.acquired = @ \cup Range(entered)]
    /\ next_session' = next_session + (IF entered = << >> THEN 0 ELSE 1)
    /\ pc' = "cleanup"
    /\ UNCHANGED << argv, arg_idx, tool_to_session_map, tools, released >>
    /\ UNCHANGED queryVars

\* The server path is neither .py nor .js: ValueError.
ConnectBadSpec ==
    /\ pc = "connect"
    /\ arg_idx <= Len(argv)
    /\ ~(is_python(argv[arg_idx]) \/ is_js(argv[arg_idx]))
    /\ ConnectRaises(<< >>)
    /\ UNCHANGED sessions

\* Entering stdio_client fails (the process does not start).
ConnectLaunchFails ==
    /\ pc = "connect"
    /\ arg_idx <= Len(argv)
    /\ is_python(argv[arg_idx]) \/ is_js(argv[arg_idx])
    /\ ConnectRaises(<< >>)
    /\ UNCHANGED sessions

\* Entering ClientSession fails: the transport is already on the exit stack.
ConnectSessionFails ==
    /\ pc = "connect"
    /\ arg_idx <= Len(argv)
    /\ is_python(argv[arg_idx]) \/ is_js(argv[arg_idx])
    /\ ConnectRaises(<< Transport(next_session) >>)
    /\ UNCHANGED sessions

\* session.initialize() fails: both contexts are on the exit stack.
ConnectInitializeFails ==
    /\ pc = "connect"
    /\ arg_idx <= Len(argv)
    /\ is_python(argv[arg_idx]) \/ is_js(argv[arg_idx])
    /\ ConnectRaises(<< Transport(next_session), Session(next_session) >>)
    /\ UNCHANGED sessions

\* session.list_tools() fails: the session is already stored in self.sessions.
ConnectListToolsFails ==
    /\ pc = "connect"
    /\ arg_idx <= Len(argv)
    /\ is_python(argv[arg_idx]) \/ is_js(argv[arg_idx])
    /\ sessions' = DictSet(sessions, argv[arg_idx], Session(next_session))
    /\ ConnectRaises(<< Transport(next_session), Session(next_session) >>)

\* connect_to_server returns: the server's tools are registered.
ConnectOk ==
    /\ pc = "connect"
    /\ arg_idx <= Len(argv)
    /\ is_python(argv[arg_idx]) \/ is_js(argv[arg_idx])
    /\ LET path == argv[arg_idx]
           session == Session(next_session)
       IN /\ exit_stack' = exit_stack \o << Transport(next_session), session >>
          /\ sessions' = DictSet(sessions, path, session)
          /\ tools' = RegisterTools(tools, server_tools(path))
          /\ tool_to_session_map' =
                 RegisterMap(tool_to_session_map, server_tools(path), session)
          /\ outcome' = [outcome EXCEPT
                 !.connected = @ + 1,
                 !.acquired = @ \cup {Transport(next_session), session},
                 !.startup = IF arg_idx = Len(argv) THEN "ok" ELSE @]
    /\ next_session' = next_session + 1
    /\ arg_idx' = arg_idx + 1
    \* after the last server main() calls chat_loop()
    /\ pc' = IF arg_idx = Len(argv) THEN "input" ELSE "connect"
    /\ UNCHANGED << argv, released >>
    /\ UNCHANGED queryVars

\* ------------------------------------------------------------------ cleanup

\* A release loop that the first raising release ends.
ReleasesUntilRaise(stack, first_raise) ==
    [ k \in 1..(IF first_raise > 0 THEN first_raise ELSE Len(stack)) |->
        stack[Len(stack) + 1 - k] ]

\* The contexts aclose() releases, in order, when the release of the
\* first_raise-th of them raises (0: none of the first raises): it releases
\* the contexts last entered first and goes on after a release that raised.
Releases(stack, first_raise) == [ k \in 1..Len(stack) |-> stack[Len(stack) + 1 - k] ]

\* cleanup(): await self.exit_stack.aclose()
Cleanup(first_raise) ==
    /\ pc = "cleanup"
    /\ exit_stack # << >>
    /\ released' = released \o Releases(exit_stack, first_raise)
    /\ exit_stack' = << >>
    /\ outcome' = [outcome EXCEPT !.release_raised = (first_raise > 0)]
    /\ UNCHANGED << argv, pc, arg_idx, sessions, tool_to_session_map, tools,
                    next_session >>
    /\ UNCHANGED queryVars

\* main()'s finally clause, with any release raising.
RunCleanup ==
    /\ pc = "cleanup"
    /\ \E first_raise \in 0..Len(exit_stack) : Cleanup(first_raise)

\* aclose() has nothing left to release: main() ends (with the exception that
\* was under way, if any).
Exit ==
    /\ pc = "cleanup"
    /\ exit_stack = << >>
    /\ pc' = "exited"
    /\ UNCHANGED << argv, arg_idx, released, outcome >>
    /\ UNCHANGED hostVars
    /\ UNCHANGED queryVars

\* ------------------------------------------------------ the model backend

\* The content blocks a response may hold.  A tool-use block gets its id when
\* the response is issued; a block that is neither text nor tool_use stands
\* for the other kinds the backend has (thinking, ...).
TextBlock == [type |-> "text", text |-> "The answer is 5"]
ThinkingBlock == [type |-> "thinking", thinking |-> "let me see"]
ToolInput(name) == IF name = "add" THEN "{'a': 2, 'b': 3}" ELSE "{}"
ToolUseBlock(name) ==
    [type |-> "tool_use", id |-> 0, name |-> name, input |-> ToolInput(name)]
BlockChoices == {TextBlock, ThinkingBlock} \cup { ToolUseBlock(n) : n \in ToolNames }

\* The response with its tool-use ids filled in: the backend's ids are unique.
Issue(blocks, first_id) ==
    [ k \in 1..Len(blocks) |->
        IF blocks[k].type = "tool_use"
        THEN [blocks[k] EXCEPT !.id = first_id + k - 1]
        ELSE blocks[k] ]

\* ------------------------------------------------------------ process_query

IsText(b) == b.type = "text"
IsToolUse(b) == b.type = "tool_use"
KeptBlock(b) == IsText(b) \/ IsToolUse(b)

\* An assistant turn that keeps the tool-use blocks only.
assistant_content_tools_only(content) == SelectSeq(content, IsToolUse)

\* assistant_content after the loop over claude_response.content
assistant_content(content) == SelectSeq(content, KeptBlock)

\* tool_calls_to_execute after the loop over claude_response.content
ToolCalls(content) == SelectSeq(content, IsToolUse)

\* what the loop over claude_response.content appends to log_parts
TextsOf(content) ==
    LET texts == SelectSeq(content, IsText)
    IN [ k \in 1..Len(texts) |-> texts[k].text ]

\* A loop that also ends on a response that holds text.
LoopEndsOnText(calls, content) == calls = << >> \/ SelectSeq(content, IsText) # << >>

\* A loop with a cap of two iterations.
LoopEndsCapped(calls, content) == calls = << >> \/ Len(responses) >= 1

\* if not tool_calls_to_execute: break
LoopEnds(calls, content) == calls = << >>

\* f"CALLING TOOL: {tool_call.name} WITH {tool_call.input}"
CallLine(tool_call) ==
    "CALLING TOOL: " \o tool_call.name \o " WITH " \o tool_call.input

\* A "not found" text that leaves the tool's name out.
NotFoundTextUnnamed(tool_call) == "Error: Tool not found."

\* f"Error: Tool '{tool_call.name}' not found."
NotFoundText(tool_call) == "Error: Tool '" \o tool_call.name \o "' not found."

\* getattr(content, 'text', str(content))
PartText(part) == IF "text" \in DOMAIN part THEN part.text ELSE part.repr

\* result_text of a call that returned `answer` (result.content)
ResultText(answer) ==
    LET result_content == [ k \in 1..Len(answer) |-> PartText(answer[k]) ]
    IN IF result_content # << >> THEN Join(result_content) ELSE "no result"

\* the dictionary appended to tool_results
ToolResult(tool_call, result_text) ==
    [type |-> "tool_result", tool_use_id |-> tool_call.id, content |-> result_text]

\* Results collected newest first.
PrependResult(results, result) == << result >> \o results

\* tool_results.append(result)
AppendResult(results, result) == Append(results, result)

\* the tool call the for loop is at
CurrentCall == tool_calls_to_execute[Len(tool_results) + 1]

\* chat_loop reads 'quit': the loop ends and main()'s finally runs cleanup.
ReadQuit ==
    /\ pc = "input"
    /\ pc' = "cleanup"
    /\ UNCHANGED << argv, arg_idx, released, outcome >>
    /\ UNCHANGED hostVars
    /\ UNCHANGED queryVars

\* chat_loop reads a query and calls process_query, which appends the user
\* turn and enters its loop.
ReadQuery(query) ==
    /\ pc = "input"
    /\ outcome.input < MaxInput
    /\ conversation_history' =
           Append(conversation_history, [role |-> "user", content |-> PyStr(query)])
    /\ log_parts' = << >>
    /\ tool_calls_to_execute' = << >>
    /\ tool_results' = << >>
    /\ responses' = << >>
    /\ call_log' = << >>
    /\ outcome' = [outcome EXCEPT !.queries = @ + 1, !.input = @ + 1,
                                  !.query = "running"]
    /\ pc' = "model"
    /\ UNCHANGED << argv, arg_idx, released, next_block_id, returned >>
    /\ UNCHANGED hostVars

\* A model-call exception that chat_loop does not catch: it ends the loop.
ModelRaisesLeavesLoop ==
    /\ pc = "model"
    /\ outcome' = [outcome EXCEPT !.query = "raised"]
    /\ pc' = "cleanup"
    /\ UNCHANGED << argv, arg_idx, released >>
    /\ UNCHANGED hostVars
    /\ UNCHANGED queryVars

\* messages.create raises: the exception leaves process_query and is caught
\* and printed by chat_loop, which asks for the next query.
ModelRaises ==
    /\ pc = "model"
    /\ outcome' = [outcome EXCEPT !.query = "raised"]
    /\ pc' = "input"
    /\ UNCHANGED << argv, arg_idx, released >>
    /\ UNCHANGED hostVars
    /\ UNCHANGED queryVars

\* messages.create returns `blocks`: the blocks are classified, the assistant
\* turn is appended, and without a tool call process_query returns.
ModelResponds(blocks) ==
    /\ pc = "model"
    /\ outcome.input + 1 + Len(blocks) <= MaxInput
    /\ LET content == Issue(blocks, next_block_id)
           calls == ToolCalls(content)
           log == log_parts \o TextsOf(content)
       IN /\ responses' = Append(responses, content)
          /\ log_parts' = log
          /\ tool_calls_to_execute' = calls
          /\ conversation_history' =
                 Append(conversation_history,
                        [role |-> "assistant",
                         content |-> PyList(assistant_content(content))])
          /\ tool_results' = << >>
          /\ call_log' = << >>
          /\ IF LoopEnds(calls, content)
             THEN /\ pc' = "input"
                  /\ returned' = Join(log)
                  /\ outcome' = [outcome EXCEPT !.input = @ + 1 + Len(blocks),
                                                !.query = "returned"]
             ELSE /\ pc' = "dispatch"
                  /\ returned' = returned
                  /\ outcome' = [outcome EXCEPT !.input = @ + 1 + Len(blocks)]
    /\ next_block_id' = next_block_id + Len(blocks)
    /\ UNCHANGED << argv, arg_idx, released >>
    /\ UNCHANGED hostVars

\* The model call of one iteration, with any response the input bound allows.
ModelCall ==
    /\ pc = "model"
    /\ \E n \in 0..(MaxInput - outcome.input - 1) :
          \E blocks \in [1..n -> BlockChoices] : ModelResponds(blocks)

\* A loop that appends the tool-result turn under the assistant role.
NextIterationAsAssistant(results) ==
    /\ tool_results' = results
    /\ IF Len(results) = Len(tool_calls_to_execute)
       THEN /\ conversation_history' =
                   Append(conversation_history,
                          [role |-> "assistant", content |-> PyList(results)])
            /\ pc' = "model"
       ELSE /\ conversation_history' = conversation_history
            /\ pc' = "dispatch"

\* A loop that writes the tool-result turn over the assistant turn.
NextIterationReplacesTurn(results) ==
    /\ tool_results' = results
    /\ IF Len(results) = Len(tool_calls_to_execute)
       THEN /\ conversation_history' =
                   [conversation_history EXCEPT ![Len(conversation_history)] =
                        [role |-> "user", content |-> PyList(results)]]
            /\ pc' = "model"
       ELSE /\ conversation_history' = conversation_history
            /\ pc' = "dispatch"

\* One tool call has its result: the for loop goes on, or it is over and the
\* tool-result turn is appended before the next model call.
NextIteration(results) ==
    /\ tool_results' = results
    /\ IF Len(results) = Len(tool_calls_to_execute)
       THEN /\ conversation_history' =
                   Append(conversation_history,
                          [role |-> "user", content |-> PyList(results)])
            /\ pc' = "model"
       ELSE /\ conversation_history' = conversation_history
            /\ pc' = "dispatch"

\* The for loop takes the next tool call, whose name is in no server's
\* exports: the result is the "not found" text.
DispatchNotFound ==
    /\ pc = "dispatch"
    /\ DictGet(tool_to_session_map, CurrentCall.name) = None
    /\ log_parts' = Append(log_parts, CallLine(CurrentCall))
    /\ NextIteration(AppendResult(tool_results,
                                  ToolResult(CurrentCall, NotFoundText(CurrentCall))))
    /\ UNCHANGED << argv, arg_idx, released, outcome, tool_calls_to_execute,
                    next_block_id, responses, call_log, returned >>
    /\ UNCHANGED hostVars

\* The for loop takes the next tool call and awaits call_tool on the session
\* the map holds for its name.
DispatchCall ==
    /\ pc = "dispatch"
    /\ DictGet(tool_to_session_map, CurrentCall.name) # None
    /\ log_parts' = Append(log_parts, CallLine(CurrentCall))
    /\ call_log' = Append(call_log,
           [session |-> DictGet(tool_to_session_map, CurrentCall.name),
            name |-> CurrentCall.name, input |-> CurrentCall.input,
            id |-> CurrentCall.id, state |-> "started"])
    /\ pc' = "call"
    /\ UNCHANGED << argv, arg_idx, released, outcome, tool_calls_to_execute,
                    tool_results, conversation_history, next_block_id, responses,
                    returned >>
    /\ UNCHANGED hostVars

\* call_tool returns `answer`.
ToolReturns(answer) ==
    /\ pc = "call"
    /\ call_log' = [call_log EXCEPT ![Len(call_log)].state = "returned"]
    /\ NextIteration(AppendResult(tool_results,
                                  ToolResult(CurrentCall, ResultText(answer))))
    /\ UNCHANGED << argv, arg_idx, released, outcome, log_parts,
                    tool_calls_to_execute, next_block_id, responses, returned >>
    /\ UNCHANGED hostVars

\* A call_tool exception after which the unanswered assistant turn is taken
\* back from the history.
ToolRaisesRollsBack ==
    /\ pc = "call"
    /\ call_log' = [call_log EXCEPT ![Len(call_log)].state = "raised"]
    /\ outcome' = [outcome EXCEPT !.query = "raised"]
    /\ pc' = "input"
    /\ conversation_history' =
           SubSeq(conversation_history, 1, Len(conversation_history) - 1)
    /\ UNCHANGED << argv, arg_idx, released, log_parts, tool_calls_to_execute,
                    tool_results, next_block_id, responses, returned >>
    /\ UNCHANGED hostVars

\* call_tool raises: nothing in process_query catches it, so it leaves
\* process_query and is caught and printed by chat_loop.
ToolRaises ==
    /\ pc = "call"
    /\ call_log' = [call_log EXCEPT ![Len(call_log)].state = "raised"]
    /\ outcome' = [outcome EXCEPT !.query = "raised"]
    /\ pc' = "input"
    /\ UNCHANGED << argv, arg_idx, released, log_parts, tool_calls_to_execute,
                    tool_results, conversation_history, next_block_id, responses,
                    returned >>
    /\ UNCHANGED hostVars

\* -------------------------------------------------------------- the program

Next ==
    \/ ConnectBadSpec
    \/ ConnectLaunchFails
    \/ ConnectSessionFails
    \/ ConnectInitializeFails
    \/ ConnectListToolsFails
    \/ ConnectOk
    \/ ReadQuit
    \/ \E query \in Queries : ReadQuery(query)
    \/ ModelRaises
    \/ ModelCall
    \/ DispatchNotFound
    \/ DispatchCall
    \/ \E answer \in ToolAnswers : ToolReturns(answer)
    \/ ToolRaises
    \/ RunCleanup
    \/ Exit

Spec == Init /\ [][Next]_vars

\* ------------------------------------------------------------- properties

Last(seq) == seq[Len(seq)]

IsToolResult(b) == b.type = "tool_result"

\* The tool-use blocks of the assistant turn at position j of the history.
ToolUsesAt(j) == SelectSeq(conversation_history[j].content.v, IsToolUse)

IsToolUseTurn(j) ==
    /\ conversation_history[j].role = "assistant"
    /\ ToolUsesAt(j) # << >>

\* The turn at position j is a user turn that holds tool-result blocks.
IsToolResultTurn(j) ==
    /\ conversation_history[j].role = "user"
    /\ conversation_history[j].content.py = "list"

\* The turn after position j holds the results of the tool-use blocks of the
\* turn at j, one each, in their order, and nothing else; and no second
\* tool-result turn follows it.
AnsweredAt(j) ==
    /\ j < Len(conversation_history)
    /\ IsToolResultTurn(j + 1)
    /\ LET uses == ToolUsesAt(j)
           results == conversation_history[j + 1].content.v
       IN /\ Len(results) = Len(uses)
          /\ \A i \in 1..Len(results) :
                /\ IsToolResult(results[i])
                /\ results[i].tool_use_id = uses[i].id
    /\ (j + 2 <= Len(conversation_history)) => ~IsToolResultTurn(j + 2)

\* process_query is between its assistant turn and the tool-result turn.
ExecutingTools == pc \in {"dispatch", "call"}

\* C1 (turn pairing): whatever process_query calls were made, every assistant
\* turn of the history that holds k >= 1 tool-use blocks is immediately
\* followed by exactly one user turn that holds exactly k tool-result blocks
\* and nothing else, the i-th carrying the id of the i-th tool-use block.  (The
\* turn whose tools are being executed right now is the only one excused.)
C1_TurnPairing ==
    \A j \in 1..Len(conversation_history) :
        (IsToolUseTurn(j) /\ ~(ExecutingTools /\ j = Len(conversation_history)))
            => AnsweredAt(j)

\* C2 (soft tool failure): a step taken while call_tool is awaited, whether
\* the call returns or raises, stays in the turn loop and produces the
\* tool-result block of the tool-use block that was being executed.
C2_ToolFailureSoft ==
    [][ pc = "call" =>
          /\ pc' \in {"dispatch", "model"}
          /\ outcome'.query = "running"
          /\ Len(tool_results') = Len(tool_results) + 1
          /\ Last(tool_results').tool_use_id = CurrentCall.id ]_vars

\* C3 (missing tool): when the for loop reaches a tool-use block whose name is
\* not a key of tool_to_session_map, the step appends to tool_results the
\* block {tool_result, that block's id, "Error: Tool '<name>' not found."},
\* makes no call_tool, raises nothing and stays in the turn loop.
C3_MissingTool ==
    [][ (pc = "dispatch" /\ CurrentCall.name \notin DOMAIN tool_to_session_map) =>
          /\ tool_results' =
                 Append(tool_results,
                        [type |-> "tool_result",
                         tool_use_id |-> CurrentCall.id,
                         content |-> "Error: Tool '" \o CurrentCall.name
                                         \o "' not found."])
          /\ call_log' = call_log
          /\ outcome'.query = "running"
          /\ pc' \in {"dispatch", "model"} ]_vars

\* A tool-result turn that reports the unregistered tool "nope" was appended
\* and the loop is at its next model call.
C3_Witness ==
    /\ pc = "model"
    /\ conversation_history # << >>
    /\ IsToolResultTurn(Len(conversation_history))
    /\ \E i \in DOMAIN Last(conversation_history).content.v :
          Last(conversation_history).content.v[i].content
              = "Error: Tool 'nope' not found."

\* The ids of a sequence of tool-use blocks (or call records).
Ids(seq) == [ k \in 1..Len(seq) |-> seq[k].id ]

ResultIds(seq) == [ k \in 1..Len(seq) |-> seq[k].tool_use_id ]

HasSession(tool_call) == tool_call.name \in DOMAIN tool_to_session_map

\* C4 (sequential tool order): no call_tool is started before the one before
\* it has completed, the calls are made in the order of the request, and the
\* results collected so far (and the tool-result turn, once appended) are in
\* the order of the request: the results of t1..ti, for the i calls done.
C4_SequentialOrder ==
    /\ \A i \in 1..Len(call_log) :
          call_log[i].state = "started" => (i = Len(call_log) /\ pc = "call")
    /\ ExecutingTools =>
          /\ Len(tool_results) <= Len(tool_calls_to_execute)
          /\ ResultIds(tool_results)
                 = SubSeq(Ids(tool_calls_to_execute), 1, Len(tool_results))
          /\ Ids(call_log)
                 = Ids(SelectSeq(SubSeq(tool_calls_to_execute, 1,
                                        Len(tool_results)
                                            + (IF pc = "call" THEN 1 ELSE 0)),
                                 HasSession))
    /\ (pc = "model" /\ tool_calls_to_execute # << >>) =>
          /\ IsToolResultTurn(Len(conversation_history))
          /\ ResultIds(Last(conversation_history).content.v)
                 = Ids(tool_calls_to_execute)

\* Two tools of one response were called, both calls returned, and the
\* tool-result turn was appended.
C4_Witness ==
    /\ pc = "model"
    /\ Len(tool_calls_to_execute) = 2
    /\ Len(call_log) = 2
    /\ call_log[1].name # call_log[2].name
    /\ \A i \in 1..2 : call_log[i].state = "returned"

\* The responses of this query that held a tool-use block.
ToolResponses == { i \in 1..Len(responses) : ToolCalls(responses[i]) # << >> }

\* C5 (termination on a tool-free response): process_query returns exactly at
\* the first response without a tool-use block: a response of the current
\* query is tool-free if and only if it is the last one and the query has
\* returned on it, so a query that returned made one model call more than it
\* got responses with a tool-use block (exactly one if the first had none).
C5_ReturnsAtFirstToolFree ==
    /\ \A i \in 1..Len(responses) :
          (ToolCalls(responses[i]) = << >>)
              <=> (i = Len(responses) /\ outcome.query = "returned")
    /\ outcome.query = "returned" =>
          /\ Len(responses) = Cardinality(ToolResponses) + 1
          /\ pc \in {"input", "cleanup", "exited"}

\* A query returned after two model calls, the first of which requested a tool.
C5_Witness ==
    /\ outcome.query = "returned"
    /\ Len(responses) = 2
    /\ ToolCalls(responses[1]) # << >>

\* The configured maximum number of turns of the history-bound policy.
HistoryMax == 2

\* C6 (history bound): when a new query has just been taken (its user turn is
\* appended, no model call made yet), the history that was pending has been
\* trimmed to at most HistoryMax turns.
C6_HistoryBound ==
    (pc = "model" /\ responses = << >>) =>
        Len(conversation_history) - 1 <= HistoryMax

\* The catalog and the sum of the descriptor counts of the servers argv[1..n].
RECURSIVE ExportedBy(_)
ExportedBy(n) ==
    IF n = 0 THEN << >>
    ELSE ExportedBy(n - 1) \o
         [ k \in 1..Len(ServerTools(argv[n])) |->
             [name |-> ServerTools(argv[n])[k].name,
              description |-> ServerTools(argv[n])[k].description,
              input_schema |-> ServerTools(argv[n])[k].inputSchema] ]

RECURSIVE ExportCount(_)
ExportCount(n) ==
    IF n = 0 THEN 0 ELSE ExportCount(n - 1) + Len(ServerTools(argv[n]))

\* The servers among argv[1..n] that export a tool of this name.
Exporters(name, n) ==
    { i \in 1..n : \E k \in DOMAIN ServerTools(argv[i]) :
                       ServerTools(argv[i])[k].name = name }

\* C7 (catalog completeness): once all the servers argv[1..n] are connected,
\* self.tools holds exactly their descriptors in connection order, as many as
\* the servers export together, and every name that exactly one of them
\* exports is mapped to the session of that server (the i-th one created).
C7_CatalogComplete ==
    outcome.startup = "ok" =>
        /\ tools = ExportedBy(Len(argv))
        /\ Len(tools) = ExportCount(Len(argv))
        /\ \A name \in ToolNames : \A i \in 1..Len(argv) :
              Exporters(name, Len(argv)) = {i} =>
                  /\ name \in DOMAIN tool_to_session_map
                  /\ tool_to_session_map[name] = [kind |-> "session", n |-> i]

\* Two different servers are connected, and one of them alone exports "add".
C7_Witness ==
    /\ outcome.startup = "ok"
    /\ Len(argv) = 2
    /\ argv[1] # argv[2]
    /\ Len(tools) = 3
    /\ Cardinality(Exporters("add", 2)) = 1

\* C8 as stated: the step that receives a model response appends exactly one
\* assistant turn that holds all the content blocks of the response, in
\* their order, whatever their kinds.
C8_AssistantTurnAllBlocks ==
    [][ (responses' # responses /\ responses' # << >>) =>
          conversation_history' =
              Append(conversation_history,
                     [role |-> "assistant",
                      content |-> [py |-> "list", v |-> Last(responses')]]) ]_vars

IsTextOrToolUse(b) == b.type \in {"text", "tool_use"}

\* C8 (assistant turn, amended): the step that receives a model response
\* appends exactly one assistant turn, also when the response holds no
\* tool-use block, and the turn holds the text and tool-use blocks of the
\* response in their order; blocks of any other kind are left out.
C8_AssistantTurnTextAndToolUse ==
    [][ (responses' # responses /\ responses' # << >>) =>
          conversation_history' =
              Append(conversation_history,
                     [role |-> "assistant",
                      content |-> [py |-> "list",
                                   v |-> SelectSeq(Last(responses'),
                                                   IsTextOrToolUse)]]) ]_vars

\* A response of a text block and a block of another kind, without a tool-use
\* block, was received and its assistant turn holds the text block only.
C8_Witness ==
    /\ responses # << >>
    /\ Len(Last(responses)) = 2
    /\ \E i \in 1..2 : Last(responses)[i].type = "thinking"
    /\ \E i \in 1..2 : Last(responses)[i].type = "text"
    /\ Last(conversation_history).role = "assistant"
    /\ Len(Last(conversation_history).content.v) = 1

\* C9 (shutdown releases everything): when main() has ended, a release was
\* attempted, once, for every transport and session any connect_to_server
\* call had entered on the exit stack, also when a release raised.
C9_AllReleased ==
    pc = "exited" =>
        /\ Range(released) = outcome.acquired
        /\ Len(released) = Cardinality(outcome.acquired)
        /\ exit_stack = << >>

\* Two servers were connected, a release raised, and all four contexts were
\* released all the same.
C9_Witness ==
    /\ pc = "exited"
    /\ outcome.release_raised
    /\ Len(released) = 4
    /\ Range(released) = outcome.acquired

\* C10 (no partial startup): once a connection has failed, no further server
\* is connected, the chat loop is not entered and no query is processed, and
\* cleanup is what runs next: it is never blocked, and when main() has ended
\* it has released every context the connections had entered.
C10_NoPartialStartup ==
    outcome.startup = "failed" =>
        /\ pc \in {"cleanup", "exited"}
        /\ arg_idx <= Len(argv)
        /\ outcome.connected = arg_idx - 1
        /\ Len(tools) = ExportCount(arg_idx - 1)
        /\ outcome.queries = 0
        /\ conversation_history = << >>
        /\ pc = "cleanup" => ENABLED (RunCleanup \/ Exit)
        /\ pc = "exited" => Range(released) = outcome.acquired

\* The second server failed to connect after the first was connected, and
\* main() ended with the contexts of both released.
C10_Witness ==
    /\ outcome.startup = "failed"
    /\ pc = "exited"
    /\ outcome.connected = 1
    /\ Len(released) > 2

\* main() is inside chat_loop.
InChatLoop == pc \in {"input", "model", "dispatch", "call"}

\* C11 (query-level recovery): a step in which process_query raises leaves
\* chat_loop at its prompt with the sessions, the registry and the exit
\* stack as they were and nothing released, and the only step that leaves
\* chat_loop is the one that reads 'quit'.
C11_QueryRecovery ==
    [][ /\ (outcome.query = "running" /\ outcome'.query = "raised") =>
              /\ pc' = "input"
              /\ sessions' = sessions
              /\ tool_to_session_map' = tool_to_session_map
              /\ tools' = tools
              /\ exit_stack' = exit_stack
              /\ released' = released
        /\ (InChatLoop /\ ~InChatLoop') => ReadQuit ]_vars

\* A first query was aborted by an exception and a second one was then
\* processed to its return, over the same registry.
C11_Witness ==
    /\ outcome.queries = 2
    /\ outcome.query = "returned"
    /\ Len(conversation_history) >= 3
    /\ conversation_history[2].role = "user"
    /\ released = << >>
    /\ Len(exit_stack) = 2 * outcome.connected

\* The number of descriptors of this name in the catalog.
CatalogCount(name) ==
    Cardinality({ k \in DOMAIN tools : tools[k].name = name })

\* How many times the servers argv[1..n] export this name.
RECURSIVE ExportTimes(_, _)
ExportTimes(name, n) ==
    IF n = 0 THEN 0
    ELSE ExportTimes(name, n - 1)
         + Cardinality({ k \in DOMAIN ServerTools(argv[n]) :
                             ServerTools(argv[n])[k].name = name })

\* The largest number of a non-empty set of numbers.
Max(S) == CHOOSE x \in S : \A y \in S : y <= x

\* C12 (name collision): after a startup in which several connected servers
\* export the same name, tool_to_session_map holds for it the session of the
\* server connected last among them, and the catalog holds a descriptor for
\* each registration of it; connecting raised nothing (the startup succeeded).
C12_LastRegisteredWins ==
    outcome.startup = "ok" =>
        \A name \in ToolNames :
            LET owners == Exporters(name, Len(argv))
            IN /\ CatalogCount(name) = ExportTimes(name, Len(argv))
               /\ owners # {} =>
                     /\ name \in DOMAIN tool_to_session_map
                     /\ tool_to_session_map[name]
                            = [kind |-> "session", n |-> Max(owners)]
               /\ owners = {} => name \notin DOMAIN tool_to_session_map

\* calc.py then net.js are connected: both export "ping", the map holds the
\* second session for it and the catalog two descriptors of it.
C12_Witness ==
    /\ outcome.startup = "ok"
    /\ Len(argv) = 2
    /\ argv[1] # argv[2]
    /\ Cardinality(Exporters("ping", 2)) = 2
    /\ tool_to_session_map["ping"].n = 2
    /\ CatalogCount("ping") = 2

\* The entries, one per line.
RECURSIVE Lines(_)
Lines(entries) ==
    IF entries = << >> THEN ""
    ELSE IF Len(entries) = 1 THEN entries[1]
    ELSE entries[1] \o "\n" \o Lines(Tail(entries))

\* The log entry of one block: its text, or the CALL line of a tool-use block.
EntryOf(b) ==
    IF b.type = "text" THEN b.text
    ELSE "CALLING TOOL: " \o b.name \o " WITH " \o b.input

\* The entries of a sequence of blocks, in the order of the blocks.
EntriesOf(blocks) == [ k \in 1..Len(blocks) |-> EntryOf(blocks[k]) ]

\* The entries of the first n responses, block by block as the model emitted them.
RECURSIVE EntriesInBlockOrder(_)
EntriesInBlockOrder(n) ==
    IF n = 0 THEN << >>
    ELSE EntriesInBlockOrder(n - 1)
         \o EntriesOf(SelectSeq(responses[n], IsTextOrToolUse))

\* The entries of the first n responses, response by response: the texts of
\* a response first, the CALL lines of its tool-use blocks after them.
RECURSIVE EntriesTextsFirst(_)
EntriesTextsFirst(n) ==
    IF n = 0 THEN << >>
    ELSE EntriesTextsFirst(n - 1)
         \o EntriesOf(SelectSeq(responses[n], IsText))
         \o EntriesOf(SelectSeq(responses[n], IsToolUse))

\* C13 as stated: the log a query returns holds the text of every text block
\* and the CALL line of every tool-use block of its responses, in the order
\* in which the model emitted the blocks.
C13_LogInBlockOrder ==
    outcome.query = "returned" =>
        returned = Lines(EntriesInBlockOrder(Len(responses)))

\* C13 (returned log, amended): the log a query returns holds, one per line,
\* the text of every text block and the CALL line of every tool-use block of
\* its responses, response by response; within one response the texts come
\* first, in their order, and the CALL lines follow, in their order.
C13_LogTextsFirst ==
    outcome.query = "returned" =>
        returned = Lines(EntriesTextsFirst(Len(responses)))

\* A query returned whose first response was a tool-use block for "add"
\* followed by a text block: the text is logged before the CALL line.
C13_Witness ==
    /\ outcome.query = "returned"
    /\ Len(responses) = 2
    /\ Len(responses[1]) = 2
    /\ responses[1][1].type = "tool_use"
    /\ responses[1][2].type = "text"
    /\ returned = "The answer is 5\nCALLING TOOL: add WITH {'a': 2, 'b': 3}"

\* C14 (routing): when the for loop reaches a tool-use block whose name is a
\* key of tool_to_session_map, the step makes one call_tool, on the session
\* the map holds for that name and with the block's name and input, and the
\* step that completes the call makes no further call: the calls of a
\* tool-result turn are one per block reached, no two for the same block.
C14_Routing ==
    [][ /\ (pc = "dispatch" /\ CurrentCall.name \in DOMAIN tool_to_session_map) =>
              /\ pc' = "call"
              /\ call_log' =
                     Append(call_log,
                            [session |-> tool_to_session_map[CurrentCall.name],
                             name |-> CurrentCall.name,
                             input |-> CurrentCall.input,
                             id |-> CurrentCall.id,
                             state |-> "started"])
        /\ pc = "call" =>
              /\ Len(call_log') = Len(call_log)
              /\ \A i \in DOMAIN call_log :
                    /\ call_log'[i].session = call_log[i].session
                    /\ call_log'[i].id = call_log[i].id
              /\ Last(call_log).id = CurrentCall.id
        /\ \A i, j \in DOMAIN call_log :
              i # j => call_log[i].id # call_log[j].id ]_vars

\* With calc.py then net.js connected, a response asked for "add" and "ping":
\* "add" was called on the first session and "ping" on the second.
C14_Witness ==
    /\ Len(call_log) = 2
    /\ call_log[1].name = "add"
    /\ call_log[1].session = [kind |-> "session", n |-> 1]
    /\ call_log[1].input = "{'a': 2, 'b': 3}"
    /\ call_log[2].name = "ping"
    /\ call_log[2].session = [kind |-> "session", n |-> 2]
    /\ call_log[2].state = "returned"

\* The assistant turn at position j holds tool-use blocks that the turn after
\* it does not answer, and no tool loop is at work on it.
Orphan(j) ==
    /\ IsToolUseTurn(j)
    /\ ~AnsweredAt(j)
    /\ ~(ExecutingTools /\ j = Len(conversation_history))

\* C15 (orphan after a failed query): a query aborted by an exception between
\* its assistant tool-use turn and the tool-result turn leaves the history as
\* it is, ending with that unanswered turn; an unanswered tool-use turn stays
\* in the history, at its place and unanswered, in every later step; and the
\* next query appends its user turn right after it, which is the history
\* its model call gets.
C15_OrphanStays ==
    [][ /\ (pc = "call" /\ outcome'.query = "raised") =>
              /\ pc' = "input"
              /\ conversation_history' = conversation_history
              /\ IsToolUseTurn(Len(conversation_history))
        /\ \A j \in 1..Len(conversation_history) :
              Orphan(j) =>
                  /\ Len(conversation_history') >= j
                  /\ conversation_history'[j] = conversation_history[j]
                  /\ Orphan(j)'
        /\ ( /\ pc = "input" /\ pc' = "model"
             /\ conversation_history # << >>
             /\ Orphan(Len(conversation_history)) ) =>
              /\ Len(conversation_history') = Len(conversation_history) + 1
              /\ Last(conversation_history').role = "user"
              /\ Last(conversation_history').content.py = "str" ]_vars

\* The first query was aborted by a raising call_tool, and the model call of
\* the second query was made on a history whose second turn is the
\* unanswered tool-use turn, followed by the new user turn.
C15_Witness ==
    /\ outcome.queries = 2
    /\ responses # << >>
    /\ Len(conversation_history) >= 4
    /\ Orphan(2)
    /\ conversation_history[3].role = "user"
    /\ conversation_history[3].content.py = "str"
    /\ conversation_history[4].role = "assistant"

\* process_query is running its turn loop.
InTurnLoop == pc \in {"model", "dispatch", "call"}

\* C16 (append-only during a turn loop): every step of a process_query call,
\* from the one that enters it to the one that returns or raises, leaves the
\* turns the history had where they were, unchanged, and at most adds turns
\* at its end.
C16_AppendOnly ==
    [][ (InTurnLoop \/ InTurnLoop') =>
          /\ Len(conversation_history') >= Len(conversation_history)
          /\ SubSeq(conversation_history', 1, Len(conversation_history))
                 = conversation_history ]_vars

\* One call has added its user turn, an assistant turn and a tool-result turn.
C16_Witness ==
    /\ pc = "model"
    /\ outcome.queries = 1
    /\ Len(conversation_history) = 3
    /\ IsToolResultTurn(3)

\* C17 (no iteration cap): a response that holds a tool-use block keeps the
\* turn loop going, however many responses came before it, and the loop is
\* left only by returning on a response without a tool-use block or by an
\* exception: the number of iterations bounds nothing.
C17_NoIterationCap ==
    [][ /\ ( /\ pc = "model"
             /\ responses' # responses
             /\ responses' # << >>
             /\ ToolCalls(Last(responses')) # << >> ) =>
              /\ pc' = "dispatch"
              /\ outcome'.query = "running"
        /\ (InTurnLoop /\ ~InTurnLoop') =>
              /\ pc' = "input"
              /\ \/ /\ outcome'.query = "returned"
                    /\ pc = "model"
                    /\ ToolCalls(Last(responses')) = << >>
                 \/ /\ outcome'.query = "raised"
                    /\ responses' = responses ]_vars

\* The model has put a tool-use block in each of its two responses and the
\* loop is at its third model call.
C17_Witness ==
    /\ pc = "model"
    /\ outcome.query = "running"
    /\ Len(responses) = 2
    /\ \A i \in 1..2 : ToolCalls(responses[i]) # << >>

\* C18 as stated: the history starts with a user turn and its roles strictly
\* alternate, so that no two consecutive turns have the same role and a model
\* call gets a history whose last turn is a user turn.
C18_RolesAlternate ==
    conversation_history # << >> =>
        /\ conversation_history[1].role = "user"
        /\ \A j \in 1..(Len(conversation_history) - 1) :
              conversation_history[j].role # conversation_history[j + 1].role
        /\ pc = "model" => Last(conversation_history).role = "user"

\* C18 (roles, amended): the history starts with a user turn, no two
\* consecutive turns are both assistant turns, and a model call gets a
\* history whose last turn is a user turn; two consecutive user turns occur
\* only where the second is the typed query of a new call (the turn before
\* it was left unanswered by a model call that raised).
C18_NoTwoAssistantTurns ==
    conversation_history # << >> =>
        /\ conversation_history[1].role = "user"
        /\ \A j \in 1..(Len(conversation_history) - 1) :
              /\ conversation_history[j].role = "assistant"
                    => conversation_history[j + 1].role = "user"
              /\ conversation_history[j].role = "user"
                    => \/ conversation_history[j + 1].role = "assistant"
                       \/ conversation_history[j + 1].content.py = "str"
        /\ pc = "model" => Last(conversation_history).role = "user"

\* The model call of the first query raised, and the model call of the second
\* query was made on a history that starts with two user turns.
C18_Witness ==
    /\ responses # << >>
    /\ Len(conversation_history) >= 3
    /\ conversation_history[1].role = "user"
    /\ conversation_history[2].role = "user"
    /\ conversation_history[3].role = "assistant"

\* The tool names of the catalog, and the sessions stored in self.sessions.
CatalogNames == { tools[k].name : k \in DOMAIN tools }
StoredSessions == { sessions[p] : p \in DOMAIN sessions }

\* C19 as stated: in every reachable state the names of tool_to_session_map
\* are the names of the catalog's descriptors, and every session the map
\* points to is stored in self.sessions.
C19_RegistryConsistent ==
    /\ DOMAIN tool_to_session_map = CatalogNames
    /\ \A name \in DOMAIN tool_to_session_map :
          tool_to_session_map[name] \in StoredSessions

\* C19 (registry consistency, amended): in every reachable state the names
\* of tool_to_session_map are the names of the catalog's descriptors, and
\* every session the map points to is one whose context is (or was) on the
\* exit stack and is stored in self.sessions unless its server path was
\* connected again later, which replaced it there.
C19_RegistryConsistentUnlessReconnected ==
    /\ DOMAIN tool_to_session_map = CatalogNames
    /\ \A name \in DOMAIN tool_to_session_map :
          LET session == tool_to_session_map[name]
          IN /\ session \in outcome.acquired
             /\ session \notin StoredSessions =>
                   \E i \in (session.n + 1)..Len(argv) :
                       /\ i <= arg_idx
                       /\ argv[i] = argv[session.n]
                       /\ sessions[argv[i]] = [kind |-> "session", n |-> i]

\* The same path was connected twice and the second connection failed at
\* list_tools: self.sessions holds the second session, the map the first.
C19_Witness ==
    /\ outcome.startup = "failed"
    /\ tool_to_session_map # EmptyDict
    /\ \E name \in DOMAIN tool_to_session_map :
          tool_to_session_map[name] \notin StoredSessions

====
